---- MODULE Spec2Model ----
(***************************************************************************)
(* Real-time state synchronisation client of the trading dashboard:        *)
(*   - DataMerger (frontend/src/api/merge.ts): the pure merge functions;   *)
(*   - the Positions and PnL collection views (components) and the         *)
(*     useWebSocket hook / WebSocketClient they receive deltas through.    *)
(***************************************************************************)
EXTENDS Integers, Sequences, FiniteSets, TLC

VARIABLES
    \* ---- DataMerger applied to drawn inputs (SpecMerge) ----
    mKind,      \* which merge is exercised: positions, orders, holdings, trades, pnl
    mCurrent,   \* the `current` argument
    mDelta,     \* the `delta` / `update` argument
    mResult,    \* <<>> before the call, <<r>> after: r is the returned value
    mAgain,     \* <<>> or <<r2>>: the value returned by merging the same delta into r
    \* ---- one mounted collection view: Positions or PnL (Spec) ----
    view,            \* "positions" | "pnl": the component that is mounted
    data,            \* useQuery data (positionsData / pnlData): <<>> undefined, <<v>> loaded
    live,            \* useState livePositions (an array) / livePnL (<<>> null, <<p>> set)
    lastSequence,    \* useState lastSequence
    connectionState, \* useState connectionState of useWebSocket
    dirty,           \* a setState with a fresh array/object is pending a render
    rendered,        \* <<>> before mount; <<r>>: the values the last render saw
    wsRef,           \* wsRef.current: <<>> or <<client>>
    stale,           \* clients the hook has replaced whose socket or timer is alive
    log,             \* the deltas the server has emitted for this collection, by seq
    server,          \* the server's own copy of the collection
    sent,            \* resume requests written to a socket
    faults,          \* socket close/error events so far (bounded)
    ev,              \* the step just taken (history)
    handled,         \* n: deltas 1..n were each handled once, in order, by a handler
                     \* that saw the current state; -1 otherwise (history)
    gap,             \* <<>>, or <<n>>: the first gap delta that arrived while connected
                     \* found last-applied n (history)
    \* ---- one WebSocketClient instance and the sockets it created (SpecClient) ----
    wc,              \* <<>> not constructed; else the instance's fields, its sockets
                     \* and the browser timers it started
    wsThrows,        \* whether `new WebSocket(WS_URL)` throws in this deployment
    op,              \* the operation or event of the step just taken (history)
    hist             \* history of the run: attempts scheduled since the last open, ...

mergeVars == <<mKind, mCurrent, mDelta, mResult, mAgain>>

viewVars == <<view, data, live, lastSequence, connectionState, dirty, rendered,
              wsRef, stale, log, server, sent, faults, ev, handled, gap>>

clientVars == <<wc, wsThrows, op, hist>>

vars == <<mKind, mCurrent, mDelta, mResult, mAgain,
          view, data, live, lastSequence, connectionState, dirty, rendered,
          wsRef, stale, log, server, sent, faults, ev, handled, gap,
          wc, wsThrows, op, hist>>

(***************************************************************************)
(* Bounds of the model.                                                    *)
(***************************************************************************)
MaxUpsert == 2      \* longest changes.upsert drawn
MaxRemove == 2      \* longest changes.remove drawn
MaxSeq == 2         \* deltas the server emits in one run
MaxStale == 2       \* replaced clients kept alive at once
MaxFaults == 1      \* socket close/error events in one run

Keys == {"K1", "K2"}

\* The non-key fields an entity may carry.  A delta's upsert may be partial
\* (the wire format is JSON; the merge spreads whatever fields arrive).
Shapes == { [qty |-> 1, symbol |-> "X"], [qty |-> 2], [symbol |-> "Y"] }

CollectionKinds == {"positions", "orders", "holdings", "trades"}

(***************************************************************************)
(* Helpers over sequences.                                                 *)
(***************************************************************************)
SeqsUpTo(S, n) == UNION { [1..k -> S] : k \in 0..n }

\* Array.prototype.splice(index, 1)
Splice(s, i) == [j \in 1..(Len(s) - 1) |-> IF j < i THEN s[j] ELSE s[j + 1]]

\* Array.prototype.findIndex on the key field; 0 stands for -1 (TLA+ sequences
\* are 1-based)
FindIndex(s, kf, k) ==
    IF \E i \in 1..Len(s) : s[i][kf] = k
    THEN CHOOSE i \in 1..Len(s) : s[i][kf] = k /\ \A j \in 1..(i - 1) : s[j][kf] # k
    ELSE 0

\* Object spread { ...a, ...b }
Spread(a, b) ==
    [f \in (DOMAIN a) \cup (DOMAIN b) |-> IF f \in DOMAIN b THEN b[f] ELSE a[f]]

(***************************************************************************)
(* DataMerger                                                              *)
(***************************************************************************)
KeyField(kind) ==
    CASE kind = "positions" -> "id"
      [] kind = "orders"    -> "order_id"
      [] kind = "holdings"  -> "isin"
      [] kind = "trades"    -> "trade_id"

\* delta.changes.remove.forEach(id => { index = findIndex; if (index !== -1) splice })
RECURSIVE RemoveItems(_, _, _)
RemoveItems(result, kf, remove) ==
    IF remove = <<>> THEN result
    ELSE LET index == FindIndex(result, kf, Head(remove))
         IN  RemoveItems(IF index # 0 THEN Splice(result, index) ELSE result,
                         kf, Tail(remove))

\* delta.changes.upsert.forEach(u => { existingIndex = findIndex;
\*    if (existingIndex !== -1) result[i] = {...result[i], ...u} else result.push(u) })
RECURSIVE UpsertItems(_, _, _)
UpsertItems(result, kf, upsert) ==
    IF upsert = <<>> THEN result
    ELSE LET u == Head(upsert)
             existingIndex == FindIndex(result, kf, u[kf])
         IN  UpsertItems(IF existingIndex # 0
                         THEN [result EXCEPT ![existingIndex] = Spread(result[existingIndex], u)]
                         ELSE Append(result, u),
                         kf, Tail(upsert))

\* an upsert loop that looks for the key in the collection as it was before
\* the loop (base), not in the result it is building
RECURSIVE UpsertItems_FindInBase(_, _, _, _)
UpsertItems_FindInBase(result, base, kf, upsert) ==
    IF upsert = <<>> THEN result
    ELSE LET u == Head(upsert)
             existingIndex == FindIndex(base, kf, u[kf])
         IN  UpsertItems_FindInBase(
                 IF existingIndex # 0
                 THEN [result EXCEPT ![existingIndex] = Spread(result[existingIndex], u)]
                 ELSE Append(result, u),
                 base, kf, Tail(upsert))

mergePositions_FindInBase(current, delta) ==
    LET base == RemoveItems(current, "id", delta.changes.remove)
    IN  UpsertItems_FindInBase(base, base, "id", delta.changes.upsert)

\* an upsert loop that pushes every upserted entity without looking for its key
mergePositions_AlwaysPush(current, delta) ==
    RemoveItems(current, "id", delta.changes.remove) \o delta.changes.upsert

\* a merge that upserts first and removes afterwards
mergePositions_RemoveLast(current, delta) ==
    RemoveItems(UpsertItems(current, "id", delta.changes.upsert),
                "id", delta.changes.remove)

mergePositions(current, delta) ==
    UpsertItems(RemoveItems(current, "id", delta.changes.remove),
                "id", delta.changes.upsert)

\* an upsert loop whose spread lets the old fields win: { ...u, ...result[i] }
RECURSIVE UpsertItems_OldWins(_, _, _)
UpsertItems_OldWins(result, kf, upsert) ==
    IF upsert = <<>> THEN result
    ELSE LET u == Head(upsert)
             existingIndex == FindIndex(result, kf, u[kf])
         IN  UpsertItems_OldWins(IF existingIndex # 0
                         THEN [result EXCEPT ![existingIndex] = Spread(u, result[existingIndex])]
                         ELSE Append(result, u),
                         kf, Tail(upsert))

mergeOrders_OldWins(current, delta) ==
    UpsertItems_OldWins(RemoveItems(current, "order_id", delta.changes.remove),
                "order_id", delta.changes.upsert)

mergeOrders(current, delta) ==
    UpsertItems(RemoveItems(current, "order_id", delta.changes.remove),
                "order_id", delta.changes.upsert)

mergeHoldings(current, delta) ==
    UpsertItems(RemoveItems(current, "isin", delta.changes.remove),
                "isin", delta.changes.upsert)

mergeTrades(current, delta) ==
    UpsertItems(RemoveItems(current, "trade_id", delta.changes.remove),
                "trade_id", delta.changes.upsert)

Merge(kind, current, delta) ==
    CASE kind = "positions" -> mergePositions(current, delta)
      [] kind = "orders"    -> mergeOrders(current, delta)
      [] kind = "holdings"  -> mergeHoldings(current, delta)
      [] kind = "trades"    -> mergeTrades(current, delta)

\* an update that merges the new totals into the old ones and keeps old rows
updatePnL_PartialMerge(current, update, now) ==
    Spread(current, [totals |-> Spread(current.totals, update.totals),
                     perSymbol |-> update.perSymbol \o current.perSymbol,
                     updatedAt |-> now])

\* static updatePnL(current, update): { ...current, totals, perSymbol, updatedAt: now }
updatePnL(current, update, now) ==
    Spread(current, [totals |-> update.totals, perSymbol |-> update.perSymbol,
                     updatedAt |-> now])

(***************************************************************************)
(* Inputs drawn for the merge functions.                                   *)
(***************************************************************************)
EntitiesOf(kind) == { (KeyField(kind) :> k) @@ sh : k \in Keys, sh \in Shapes }

UniqueKeys(s, kf) == \A i, j \in 1..Len(s) : s[i][kf] = s[j][kf] => i = j

CollectionsOf(kind) ==
    { s \in SeqsUpTo(EntitiesOf(kind), Cardinality(Keys)) : UniqueKeys(s, KeyField(kind)) }

DeltasOf(kind) ==
    { [type |-> kind \o ".delta", seq |-> 1,
       changes |-> [upsert |-> u, remove |-> r]] :
         u \in SeqsUpTo(EntitiesOf(kind), MaxUpsert), r \in SeqsUpTo(Keys, MaxRemove) }

TotalsValues == { [realized |-> 1, day |-> 1], [realized |-> 2], [day |-> 2, currency |-> "INR"] }
PerSymbolValues == { <<>>, <<[symbol |-> "X", qty |-> 1]>>,
                     <<[symbol |-> "Y", qty |-> 2], [symbol |-> "X", qty |-> 2]>> }
Clock == {"t1", "t2"}

PnLValues ==
    { [totals |-> t, perSymbol |-> p, updatedAt |-> "t0", tradingDay |-> "d1"] :
        t \in TotalsValues, p \in PerSymbolValues }

PnLUpdates ==
    { [type |-> "pnl.update", seq |-> 1, totals |-> t, perSymbol |-> p] :
        t \in TotalsValues, p \in PerSymbolValues }

\* the view is not mounted (SpecMerge exercises DataMerger alone)
ViewIdle ==
    /\ view = "none" /\ data = <<>> /\ live = <<>> /\ lastSequence = 0
    /\ connectionState = "offline" /\ dirty = FALSE /\ rendered = <<>>
    /\ wsRef = <<>> /\ stale = {} /\ log = <<>> /\ server = <<>> /\ sent = <<>>
    /\ faults = 0 /\ ev = [type |-> "init"] /\ handled = 0 /\ gap = <<>>

\* no WebSocketClient is exercised on its own (SpecMerge, Spec)
ClientIdle ==
    /\ wc = <<>> /\ wsThrows = FALSE
    /\ op = [name |-> "none", sock |-> 0, code |-> 0] /\ hist = <<>>

(***************************************************************************)
(* SpecMerge: the merge functions applied to every drawn input.            *)
(***************************************************************************)
InitMerge ==
    /\ mKind \in CollectionKinds \cup {"pnl"}
    /\ IF mKind = "pnl"
       THEN mCurrent \in PnLValues /\ mDelta \in PnLUpdates
       ELSE mCurrent \in CollectionsOf(mKind) /\ mDelta \in DeltasOf(mKind)
    /\ mResult = <<>>
    /\ mAgain = <<>>
    /\ ViewIdle
    /\ ClientIdle

CallMergePositions ==
    /\ mKind = "positions" /\ mResult = <<>>
    /\ mResult' = <<mergePositions(mCurrent, mDelta)>>
    /\ UNCHANGED <<mKind, mCurrent, mDelta, mAgain>>
    /\ UNCHANGED viewVars
    /\ UNCHANGED clientVars

CallMergeOrders ==
    /\ mKind = "orders" /\ mResult = <<>>
    /\ mResult' = <<mergeOrders(mCurrent, mDelta)>>
    /\ UNCHANGED <<mKind, mCurrent, mDelta, mAgain>>
    /\ UNCHANGED viewVars
    /\ UNCHANGED clientVars

CallMergeHoldings ==
    /\ mKind = "holdings" /\ mResult = <<>>
    /\ mResult' = <<mergeHoldings(mCurrent, mDelta)>>
    /\ UNCHANGED <<mKind, mCurrent, mDelta, mAgain>>
    /\ UNCHANGED viewVars
    /\ UNCHANGED clientVars

CallMergeTrades ==
    /\ mKind = "trades" /\ mResult = <<>>
    /\ mResult' = <<mergeTrades(mCurrent, mDelta)>>
    /\ UNCHANGED <<mKind, mCurrent, mDelta, mAgain>>
    /\ UNCHANGED viewVars
    /\ UNCHANGED clientVars

\* the same delta merged into the value the first call returned
CallMergeAgain ==
    /\ mKind \in CollectionKinds /\ mResult # <<>> /\ mAgain = <<>>
    /\ mAgain' = <<Merge(mKind, mResult[1], mDelta)>>
    /\ UNCHANGED <<mKind, mCurrent, mDelta, mResult>>
    /\ UNCHANGED viewVars
    /\ UNCHANGED clientVars

CallUpdatePnL ==
    /\ mKind = "pnl" /\ mResult = <<>>
    /\ \E now \in Clock : mResult' = <<updatePnL(mCurrent, mDelta, now)>>
    /\ UNCHANGED <<mKind, mCurrent, mDelta, mAgain>>
    /\ UNCHANGED viewVars
    /\ UNCHANGED clientVars

NextMerge ==
    \/ CallMergePositions
    \/ CallMergeOrders
    \/ CallMergeHoldings
    \/ CallMergeTrades
    \/ CallMergeAgain
    \/ CallUpdatePnL

SpecMerge == InitMerge /\ [][NextMerge]_vars

(***************************************************************************)
(* Properties of the merge functions (checked under SpecMerge).            *)
(***************************************************************************)
KeysOf(s, kf) == { s[i][kf] : i \in 1..Len(s) }

ElemsOf(s) == { s[i] : i \in 1..Len(s) }

\* upserts of one delta for key k folded in order, later fields winning
RECURSIVE UpsertedEntity(_, _, _)
UpsertedEntity(upsert, kf, k) ==
    IF upsert = <<>> THEN <<>>
    ELSE LET rest == UpsertedEntity(SubSeq(upsert, 1, Len(upsert) - 1), kf, k)
             last == upsert[Len(upsert)]
         IN  IF last[kf] # k THEN rest
             ELSE IF rest = <<>> THEN <<last>> ELSE <<Spread(rest[1], last)>>

RemovedAndUpserted(kind, delta) ==
    ElemsOf(delta.changes.remove) \cap KeysOf(delta.changes.upsert, KeyField(kind))

\* C7: for every collection merge, a key listed both in changes.remove and in
\* changes.upsert is present in the merged result, exactly once, and the entity
\* is the upserted one (no field of the removed entity survives).
C7_UpsertWinsOverRemove ==
    (mKind \in CollectionKinds /\ mResult # <<>>) =>
        \A k \in RemovedAndUpserted(mKind, mDelta) :
            LET kf == KeyField(mKind)
                hits == { i \in 1..Len(mResult[1]) : mResult[1][i][kf] = k }
            IN  /\ Cardinality(hits) = 1
                /\ \A i \in hits :
                     <<mResult[1][i]>> = UpsertedEntity(mDelta.changes.upsert, kf, k)

\* C7 witness: a merge has returned for a delta that removes and upserts a key
\* the current collection holds with a field the upserted entity does not carry.
C7_Witness ==
    /\ mKind = "orders" /\ mResult # <<>>
    /\ \E k \in RemovedAndUpserted(mKind, mDelta) :
         \E i \in 1..Len(mCurrent) :
            /\ mCurrent[i].order_id = k
            /\ \E u \in ElemsOf(mDelta.changes.upsert) :
                 u.order_id = k /\ ~((DOMAIN mCurrent[i]) \subseteq DOMAIN u)

\* The merge the design describes, written over keys instead of indices:
\* drop every entity whose key is listed in remove, then take the upserts in
\* order, each one united field-wise into the entity of its key (new values
\* win) or appended when the key is absent.
RECURSIVE RefUpsert(_, _, _)
RefUpsert(coll, kf, upsert) ==
    IF upsert = <<>> THEN coll
    ELSE LET u == Head(upsert)
             next == IF u[kf] \in KeysOf(coll, kf)
                     THEN [i \in 1..Len(coll) |->
                             IF coll[i][kf] = u[kf]
                             THEN [f \in (DOMAIN coll[i]) \cup (DOMAIN u) |->
                                     IF f \in DOMAIN u THEN u[f] ELSE coll[i][f]]
                             ELSE coll[i]]
                     ELSE coll \o <<u>>
         IN  RefUpsert(next, kf, Tail(upsert))

RefMerge(kind, current, delta) ==
    LET kf == KeyField(kind)
        kept(e) == e[kf] \notin ElemsOf(delta.changes.remove)
    IN  RefUpsert(SelectSeq(current, kept), kf, delta.changes.upsert)

\* C8: for positions, orders, holdings and trades the merge of (current, delta)
\* is the reference result: listed keys removed (absent keys ignored), upserts
\* united field-wise into present entities with new values winning or inserted
\* as given, everything else unchanged.
C8_MergeEqualsReference ==
    (mKind \in CollectionKinds /\ mResult # <<>>) =>
        mResult[1] = RefMerge(mKind, mCurrent, mDelta)

\* C8 witness: a merge has returned where one listed key was absent, one entity
\* was removed, and a partial upsert hit an entity that stayed (a field union).
C8_Witness ==
    /\ mKind = "holdings" /\ mResult # <<>>
    /\ \E k \in ElemsOf(mDelta.changes.remove) : k \notin KeysOf(mCurrent, "isin")
    /\ Len(mCurrent) = 1
    /\ \E u \in ElemsOf(mDelta.changes.upsert) :
         /\ u.isin = mCurrent[1].isin
         /\ u.isin \notin ElemsOf(mDelta.changes.remove)
         /\ ~((DOMAIN mCurrent[1]) \subseteq DOMAIN u)
         /\ ~((DOMAIN u) \subseteq DOMAIN mCurrent[1])
    /\ \E u \in ElemsOf(mDelta.changes.upsert) : u.isin # mCurrent[1].isin

\* C9 as stated: merging the same delta a second time returns the same array
\* (entities, field values and order).
C9_IdempotentWithOrder ==
    (mKind = "positions" /\ mAgain # <<>>) => mAgain = mResult

\* C9 amended: the second merge returns the same entities with the same field
\* values; the array order is also the same whenever the delta lists no key in
\* both remove and upsert.
C9_IdempotentAsKeyedSet ==
    (mKind = "positions" /\ mAgain # <<>>) =>
        /\ ElemsOf(mAgain[1]) = ElemsOf(mResult[1])
        /\ Len(mAgain[1]) = Len(mResult[1])
        /\ RemovedAndUpserted(mKind, mDelta) = {} => mAgain = mResult

\* C9 witness: the delta was merged twice, it changed the collection the first
\* time, and it lists a key in both remove and upsert.
C9_Witness ==
    /\ mKind = "positions" /\ mAgain # <<>>
    /\ mResult[1] # mCurrent
    /\ RemovedAndUpserted(mKind, mDelta) # {}
    /\ Len(mResult[1]) = 2

\* C10: updatePnL returns exactly the update's totals and perSymbol, whatever
\* the current value holds.
C10_PnLWholeValueReplace ==
    (mKind = "pnl" /\ mResult # <<>>) =>
        /\ mResult[1].totals = mDelta.totals
        /\ mResult[1].perSymbol = mDelta.perSymbol

\* C10 witness: updatePnL has returned for a current value whose totals carry a
\* field the update's totals lack and whose perSymbol is not empty.
C10_Witness ==
    /\ mKind = "pnl" /\ mResult # <<>>
    /\ ~((DOMAIN mCurrent.totals) \subseteq DOMAIN mDelta.totals)
    /\ mCurrent.perSymbol # <<>>
    /\ mCurrent.perSymbol # mDelta.perSymbol

(***************************************************************************)
(* The collection views (Positions, PnL) on top of useWebSocket.           *)
(*                                                                         *)
(* React state is modelled by its latest set value; a render reads it.     *)
(* A message handler is a closure over the values of the render that       *)
(* created it: it lives in the WebSocketClient the hook's effect built in  *)
(* that commit and sees those values until the client's socket dies.       *)
(***************************************************************************)
AllChannels == {"positions", "orders", "holdings", "trades", "pnl"}

maxReconnectAttempts == 10

\* ---- what the server can hold and emit (small concrete domains) ----
FullEntity(k) == [id |-> k, qty |-> 1, symbol |-> "X"]

ServerCollections == { <<>>, <<FullEntity("K1")>> }

PositionChanges ==
    { [upsert |-> <<>>, remove |-> <<"K1">>] } \cup
    { [upsert |-> <<[id |-> k, qty |-> 2]>>, remove |-> <<>>] : k \in Keys }

ServerPnLs ==
    { [totals |-> [realized |-> 1, day |-> 1], perSymbol |-> <<[symbol |-> "X", qty |-> 1]>>,
       updatedAt |-> "t0", tradingDay |-> "d1"] }

PnLChanges ==
    { [totals |-> [realized |-> 2], perSymbol |-> <<>>],
      [totals |-> [day |-> 2, currency |-> "INR"], perSymbol |-> <<[symbol |-> "Y", qty |-> 2]>>] }

\* the message the server emits with sequence number seq
DeltaMessage(kind, seq, ch) ==
    IF kind = "pnl"
    THEN [type |-> "pnl.update", seq |-> seq, totals |-> ch.totals, perSymbol |-> ch.perSymbol]
    ELSE [type |-> "positions.delta", seq |-> seq, changes |-> ch]

\* the server applying a delta to its own copy
ServerApply(kind, coll, msg) ==
    IF kind = "pnl"
    THEN [coll EXCEPT !.totals = msg.totals, !.perSymbol = msg.perSymbol]
    ELSE RefMerge("positions", coll, msg)

\* ---- the message handlers of the two components ----
\* The result names the setState calls made: <<>> for none, <<v>> for a call,
\* and whether refetch() of the snapshot query was called (no path calls it).
NoCalls == [setLive |-> <<>>, setLastSequence |-> <<>>, refetch |-> FALSE]

\* a handler that keeps one sequence space for all kinds: any message with a
\* seq above lastSequence advances it, whatever its type
PositionsOnMessage_SharedSeq(cl, message) ==
    IF "seq" \in DOMAIN message /\ message.seq > cl.lastSequence
    THEN [setLive |->
             IF message.type = "positions.delta" /\ Len(cl.live) > 0
             THEN <<mergePositions(cl.live, message)>>
             ELSE <<>>,
          setLastSequence |-> <<message.seq>>,
          refetch |-> FALSE]
    ELSE NoCalls

\* Positions: useWebSocket((message) => { ... }) with the closure cl of its render
PositionsOnMessage(cl, message) ==
    IF message.type = "positions.delta"
    THEN IF message.seq > cl.lastSequence
         THEN [setLive |->
                  IF Len(cl.live) > 0
                  THEN <<mergePositions(cl.live, message)>>
                  ELSE IF cl.data # <<>>
                       THEN <<mergePositions(cl.data[1], message)>>
                       ELSE <<>>,
               setLastSequence |-> <<message.seq>>,
               refetch |-> FALSE]
         ELSE NoCalls
    ELSE NoCalls

\* PnL: the same handler over livePnL (null or a PnL) and pnlData
PnLOnMessage(cl, message, now) ==
    IF message.type = "pnl.update"
    THEN IF message.seq > cl.lastSequence
         THEN [setLive |->
                  IF cl.live # <<>>
                  THEN << <<updatePnL(cl.live[1], message, now)>> >>
                  ELSE IF cl.data # <<>>
                       THEN << <<updatePnL(cl.data[1], message, now)>> >>
                       ELSE <<>>,
               setLastSequence |-> <<message.seq>>,
               refetch |-> FALSE]
         ELSE NoCalls
    ELSE NoCalls

OnMessage(kind, cl, message, now) ==
    IF kind = "pnl" THEN PnLOnMessage(cl, message, now)
    ELSE PositionsOnMessage(cl, message)

\* useEffect(() => { if (positionsData && livePositions.length === 0)
\*                      setLivePositions(positionsData) }, [positionsData, livePositions])
\* useEffect(() => { if (pnlData && !livePnL) setLivePnL(pnlData) }, [pnlData, livePnL])
BaselineEffect(kind, r) ==
    IF r.data # <<>> /\ r.live = <<>>
    THEN IF kind = "pnl" THEN <<r.data>> ELSE <<r.data[1]>>
    ELSE <<>>

\* const displayData = livePositions.length > 0 ? livePositions : positionsData
\* const displayData = livePnL || pnlData                  (<<>>: nothing to show)
displayData(kind, r) ==
    IF r.live # <<>>
    THEN IF kind = "pnl" THEN r.live ELSE <<r.live>>
    ELSE r.data

\* ---- WebSocketClient ----
\* new WebSocketClient(handleStateChange, handleMessage); .connect()
\*   closure: what handleMessage -> onMessage sees; ws: this.ws is not null;
\*   sock: readyState of the socket the client created last; subscribed/pos:
\*   the server streams deltas pos+1, pos+2, ... on a subscribed socket.
NewClient(cl) ==
    [closure |-> cl, ws |-> TRUE, sock |-> "CONNECTING", subscribed |-> FALSE, pos |-> 0,
     heartbeat |-> FALSE, timer |-> FALSE, reconnectAttempts |-> 0,
     connectionState |-> "connecting"]

\* cleanup(): clear both timers, this.ws = null
cleanup(c) == [c EXCEPT !.heartbeat = FALSE, !.timer = FALSE, !.ws = FALSE]

\* disconnect(): cleanup(); if (this.ws) this.ws.close(1000) -- this.ws is null
\* by then, so the socket is left as it is; setConnectionState(OFFLINE)
disconnect(c) == [cleanup(c) EXCEPT !.connectionState = "offline"]

\* handleOpen(): reset the counter, CONNECTED, startHeartbeat(), and
\* subscribeToAllChannels(), which sends only if this.ws is the open socket
handleOpen(c, serverSeq) ==
    [c EXCEPT !.sock = "OPEN", !.reconnectAttempts = 0, !.connectionState = "connected",
              !.heartbeat = TRUE,
              !.subscribed = c.ws, !.pos = IF c.ws THEN serverSeq ELSE 0]

\* scheduleReconnect()
scheduleReconnect(c) ==
    IF c.reconnectAttempts >= maxReconnectAttempts
    THEN [c EXCEPT !.connectionState = "offline"]
    ELSE [c EXCEPT !.reconnectAttempts = c.reconnectAttempts + 1, !.timer = TRUE]

\* handleClose(event): cleanup(); code 1000 -> OFFLINE, else RECONNECTING and
\* scheduleReconnect()
handleClose(c, code) ==
    LET d == [cleanup(c) EXCEPT !.sock = "CLOSED", !.subscribed = FALSE, !.pos = 0]
    IN  IF code # 1000
        THEN scheduleReconnect([d EXCEPT !.connectionState = "reconnecting"])
        ELSE [d EXCEPT !.connectionState = "offline"]

\* handleError(): OFFLINE, nothing else
handleError(c) == [c EXCEPT !.connectionState = "offline"]

\* the reconnect timeout fires: connect() (this.ws is null after cleanup)
reconnect(c) ==
    [c EXCEPT !.timer = FALSE, !.connectionState = "connecting", !.ws = TRUE,
              !.sock = "CONNECTING", !.subscribed = FALSE, !.pos = 0]

\* sendResume(lastSeq): written to the socket only if this.ws is open
sendResume(c, lastSeq) ==
    IF c.ws /\ c.sock = "OPEN"
    THEN <<[type |-> "resume", lastSeq |-> lastSeq, channels |-> AllChannels]>>
    ELSE <<>>

\* a replaced client can still act while its socket or its timer is alive
Alive(c) == c.sock \in {"CONNECTING", "OPEN"} \/ c.timer

\* The hook drops its reference to a replaced client, whose socket stays
\* open (disconnect() closes nothing).  The model follows the replaced clients
\* whose socket is subscribed, the ones that keep receiving deltas, up to
\* MaxStale of them, and takes no further step of the others.
Leak(followed, leaked) ==
    LET all == followed \cup { c \in leaked : c.sock = "OPEN" /\ c.subscribed }
    IN  IF Cardinality(all) <= MaxStale THEN all ELSE followed

Clients == (IF wsRef = <<>> THEN {} ELSE {<<"current", wsRef[1]>>})
           \cup { <<"stale", c>> : c \in stale }

\* client c (current or replaced) becomes d
Replace(who, d) ==
    IF who[1] = "current"
    THEN wsRef' = <<d>> /\ UNCHANGED stale
    ELSE /\ stale' = (stale \ {who[2]}) \cup (IF Alive(d) THEN {d} ELSE {})
         /\ UNCHANGED wsRef

RenderValues ==
    [data |-> data, live |-> live, lastSequence |-> lastSequence,
     connectionState |-> connectionState]

Closure(r) == [data |-> r.data, live |-> r.live, lastSequence |-> r.lastSequence]

\* no state change is waiting for a render
Quiescent == rendered = <<RenderValues>> /\ ~dirty

MergeIdle ==
    /\ mKind = "none" /\ mCurrent = <<>> /\ mDelta = <<>> /\ mResult = <<>> /\ mAgain = <<>>

\* Before mount: nothing fetched, nothing live, no client; the server holds
\* some collection and has emitted nothing.
Init ==
    /\ MergeIdle
    /\ ClientIdle
    /\ view \in {"positions", "pnl"}
    /\ server \in (IF view = "pnl" THEN ServerPnLs ELSE ServerCollections)
    /\ data = <<>> /\ live = <<>> /\ lastSequence = 0
    /\ connectionState = "offline" /\ dirty = FALSE /\ rendered = <<>>
    /\ wsRef = <<>> /\ stale = {} /\ log = <<>> /\ sent = <<>>
    /\ faults = 0 /\ ev = [type |-> "init"] /\ handled = 0 /\ gap = <<>>

\* One commit of the component: the render reads the state, then its effects
\* run in declaration order.
\*  1. useWebSocket's effect, deps [handleStateChange, handleMessage]: the
\*     component passes a new arrow function on every render, so handleMessage
\*     changes and the effect re-runs on every commit: the cleanup disconnects
\*     the old client, a new client is built around this render's handler and
\*     connect() sets CONNECTING.
\*  2. the baseline effect, deps [data, live].
\*  3. the resume effect, deps [connectionState, lastSequence, sendResume]:
\*     sendResume goes to wsRef.current, the client built in step 1.
Render ==
    /\ ~Quiescent
    /\ LET r == RenderValues
           first == rendered = <<>>
           old == IF wsRef = <<>> THEN {} ELSE {disconnect(wsRef[1])}
           new == NewClient(Closure(r))
           base == IF first \/ dirty \/ rendered[1].data # r.data \/ rendered[1].live # r.live
                   THEN BaselineEffect(view, r)
                   ELSE <<>>
           resume == IF /\ \/ first
                            \/ rendered[1].connectionState # r.connectionState
                            \/ rendered[1].lastSequence # r.lastSequence
                        /\ r.connectionState = "connected"
                        /\ r.lastSequence > 0
                     THEN sendResume(new, r.lastSequence)
                     ELSE <<>>
       IN  /\ rendered' = <<r>>
           /\ wsRef' = <<new>>
           /\ stale' = Leak(stale, old)
           /\ connectionState' = "connecting"
           /\ live' = IF base # <<>> THEN base[1] ELSE live
           /\ dirty' = FALSE
           /\ sent' = sent \o resume
    /\ ev' = [type |-> "step"]
    /\ UNCHANGED <<view, data, lastSequence, log, server, faults, handled, gap>>
    /\ UNCHANGED mergeVars
    /\ UNCHANGED clientVars

\* usePositions / usePnL: the query resolves with the server's current
\* collection (structural sharing: equal data is not a change)
FetchSnapshot ==
    /\ Quiescent
    /\ data # <<server>>
    /\ data' = <<server>>
    /\ handled' = IF Len(log) = 0 THEN handled ELSE -1
    /\ ev' = [type |-> "step"]
    /\ UNCHANGED <<view, live, lastSequence, connectionState, dirty, rendered, wsRef, stale,
                   log, server, sent, faults, gap>>
    /\ UNCHANGED mergeVars
    /\ UNCHANGED clientVars

\* the server changes its collection and emits the delta with the next seq
ServerEmit ==
    /\ Quiescent
    /\ Len(log) < MaxSeq
    /\ \E ch \in (IF view = "pnl" THEN PnLChanges ELSE PositionChanges) :
         LET msg == DeltaMessage(view, Len(log) + 1, ch)
         IN  /\ log' = Append(log, msg)
             /\ server' = ServerApply(view, server, msg)
    /\ ev' = [type |-> "step"]
    /\ UNCHANGED <<view, data, live, lastSequence, connectionState, dirty, rendered, wsRef,
                   stale, sent, faults, handled, gap>>
    /\ UNCHANGED mergeVars
    /\ UNCHANGED clientVars

\* ws.onmessage on a subscribed open socket: handleMessage -> onMessage
Deliver(who) ==
    LET c == who[2]
        seq == c.pos + 1
    IN  /\ c.sock = "OPEN" /\ c.subscribed /\ c.pos < Len(log)
        /\ \E now \in Clock :
             LET calls == OnMessage(view, c.closure, log[seq], now)
                 fresh == c.closure = Closure(RenderValues)
             IN  /\ live' = IF calls.setLive # <<>> THEN calls.setLive[1] ELSE live
                 /\ lastSequence' = IF calls.setLastSequence # <<>>
                                    THEN calls.setLastSequence[1] ELSE lastSequence
                 /\ dirty' = (dirty \/ calls.setLive # <<>>)
                 /\ ev' = [type |-> "delta", seq |-> seq,
                           applied |-> calls.setLastSequence # <<>>,
                           merged |-> calls.setLive # <<>>]
                 /\ handled' = IF handled = seq - 1 /\ fresh /\ c.closure.data # <<>>
                               THEN seq ELSE -1
        /\ gap' = IF gap = <<>> /\ seq > lastSequence + 1 /\ connectionState = "connected"
                  THEN <<lastSequence>> ELSE gap
        /\ Replace(who, [c EXCEPT !.pos = seq])
        /\ UNCHANGED <<view, data, connectionState, rendered, log, server, sent, faults>>
        /\ UNCHANGED mergeVars
        /\ UNCHANGED clientVars

\* ws.onopen
SocketOpen(who) ==
    LET c == who[2]
    IN  /\ Quiescent
        /\ c.sock = "CONNECTING"
        /\ Replace(who, handleOpen(c, Len(log)))
        /\ connectionState' = "connected"
        /\ ev' = [type |-> "step"]
        /\ UNCHANGED <<view, data, live, lastSequence, dirty, rendered, log, server, sent,
                       faults, handled, gap>>
        /\ UNCHANGED mergeVars
        /\ UNCHANGED clientVars

\* a close handler that also clears the view's live value and lastSequence
SocketClose_ClearsView(who, code) ==
    LET c == who[2]
        d == handleClose(c, code)
    IN  /\ Quiescent
        /\ c.sock \in {"CONNECTING", "OPEN"}
        /\ faults < MaxFaults
        /\ faults' = faults + 1
        /\ Replace(who, d)
        /\ connectionState' = d.connectionState
        /\ live' = <<>>
        /\ lastSequence' = 0
        /\ ev' = [type |-> "step"]
        /\ UNCHANGED <<view, data, dirty, rendered, log, server, sent, handled, gap>>
        /\ UNCHANGED mergeVars
        /\ UNCHANGED clientVars

\* ws.onclose with the given close code (the network or the server closes)
SocketClose(who, code) ==
    LET c == who[2]
        d == handleClose(c, code)
    IN  /\ Quiescent
        /\ c.sock \in {"CONNECTING", "OPEN"}
        /\ faults < MaxFaults
        /\ faults' = faults + 1
        /\ Replace(who, d)
        /\ connectionState' = d.connectionState
        /\ ev' = [type |-> "step"]
        /\ UNCHANGED <<view, data, live, lastSequence, dirty, rendered, log, server, sent,
                       handled, gap>>
        /\ UNCHANGED mergeVars
        /\ UNCHANGED clientVars

\* ws.onerror
SocketError(who) ==
    LET c == who[2]
    IN  /\ Quiescent
        /\ c.sock \in {"CONNECTING", "OPEN"}
        /\ faults < MaxFaults
        /\ faults' = faults + 1
        /\ Replace(who, handleError(c))
        /\ connectionState' = "offline"
        /\ ev' = [type |-> "step"]
        /\ UNCHANGED <<view, data, live, lastSequence, dirty, rendered, log, server, sent,
                       handled, gap>>
        /\ UNCHANGED mergeVars
        /\ UNCHANGED clientVars

\* the reconnect timeout of a client fires
ReconnectTimer(who) ==
    LET c == who[2]
    IN  /\ Quiescent
        /\ c.timer
        /\ Replace(who, reconnect(c))
        /\ connectionState' = "connecting"
        /\ ev' = [type |-> "step"]
        /\ UNCHANGED <<view, data, live, lastSequence, dirty, rendered, log, server, sent,
                       faults, handled, gap>>
        /\ UNCHANGED mergeVars
        /\ UNCHANGED clientVars

CloseCodes == {1000, 1006}

Next ==
    \/ Render
    \/ FetchSnapshot
    \/ ServerEmit
    \/ \E who \in Clients : Deliver(who)
    \/ \E who \in Clients : SocketOpen(who)
    \/ \E who \in Clients : \E code \in CloseCodes : SocketClose(who, code)
    \/ \E who \in Clients : SocketError(who)
    \/ \E who \in Clients : ReconnectTimer(who)

Spec == Init /\ [][Next]_vars

\* keys a delta lists in changes.remove and not in changes.upsert
RemovedOnly(kind, delta) ==
    ElemsOf(delta.changes.remove) \ KeysOf(delta.changes.upsert, KeyField(kind))

\* C38: the merge preserves key uniqueness: the current collection holds no
\* key twice, and for every delta (repeated keys in upsert or in remove
\* included) the merged collection holds no key twice and holds no key that
\* the delta lists only in remove.
C38_MergeKeepsKeysUnique ==
    (mKind \in CollectionKinds /\ mResult # <<>>) =>
        LET kf == KeyField(mKind)
        IN  /\ UniqueKeys(mCurrent, kf)
            /\ UniqueKeys(mResult[1], kf)
            /\ KeysOf(mResult[1], kf) \cap RemovedOnly(mKind, mDelta) = {}

\* C38 witness: mergePositions has returned for a delta that upserts one key
\* twice and lists, twice, a key of the current collection only in remove.
C38_Witness ==
    /\ mKind = "positions" /\ mResult # <<>>
    /\ Len(mDelta.changes.upsert) = 2
    /\ mDelta.changes.upsert[1].id = mDelta.changes.upsert[2].id
    /\ mDelta.changes.upsert[1] # mDelta.changes.upsert[2]
    /\ Len(mDelta.changes.remove) = 2
    /\ mDelta.changes.remove[1] = mDelta.changes.remove[2]
    /\ mDelta.changes.remove[1] \in KeysOf(mCurrent, "id") \cap RemovedOnly(mKind, mDelta)

(***************************************************************************)
(* Sequence discipline of the collection views, checked under Spec.        *)
(* A step is a delivered delta exactly when ev' has type "delta"; ev'.seq  *)
(* is the delta's seq, ev'.applied says setLastSequence was called and      *)
(* ev'.merged says the merge result was stored in the view.                *)
(***************************************************************************)

\* C1: a delta whose seq is above lastSequence + 1 (a gap) leaves the view
\* state and lastSequence unchanged.
C1_GapLeavesStateUnchanged ==
    [][ (ev'.type = "delta" /\ ev'.seq > lastSequence + 1) =>
            (live' = live /\ lastSequence' = lastSequence) ]_vars

\* C2: once a gap delta has arrived while connected with last-applied n, and
\* the component has settled (every pending render and effect has run) with
\* no socket fault in the run, a resume request with lastSeq = n was sent.
C2_GapIssuesResume ==
    (gap # <<>> /\ faults = 0 /\ Quiescent) =>
        \E i \in 1..Len(sent) : sent[i].type = "resume" /\ sent[i].lastSeq = gap[1]

\* C3: a delta whose seq is at most lastSequence leaves the view state and
\* lastSequence exactly as they were.
C3_DuplicateDropped ==
    [][ (ev'.type = "delta" /\ ev'.seq <= lastSequence) =>
            (live' = live /\ lastSequence' = lastSequence) ]_vars

\* C4: a delta with seq = lastSequence + 1 is merged into the view and
\* lastSequence becomes that seq, and lastSequence never moves on a delivery
\* that stored no merge result.
C4_NextDeltaMergedAndAdvanced ==
    [][ /\ (ev'.type = "delta" /\ ev'.seq = lastSequence + 1) =>
               (ev'.merged /\ lastSequence' = ev'.seq)
        /\ (ev'.type = "delta" /\ lastSequence' # lastSequence) => ev'.merged ]_vars

\* C5: the seqs of the deltas applied to the view are strictly increasing:
\* every applied delta has a seq above the one applied last.
C5_AppliedSeqsIncrease ==
    [][ (ev'.type = "delta" /\ ev'.applied) => ev'.seq > lastSequence ]_vars

\* C6: after the snapshot S and then the server's deltas D1..Dn, each handed
\* once and in order to the handler of the latest render, the settled view
\* shows the same entities with the same field values as the server holds.
C6_SnapshotThenReplay ==
    (/\ view = "positions" /\ Quiescent
     /\ data # <<>> /\ handled = Len(log) /\ handled > 0) =>
        LET shown == displayData(view, RenderValues)[1]
        IN  ElemsOf(shown) = ElemsOf(server) /\ Len(shown) = Len(server)

(***************************************************************************)
(* SpecClient: one WebSocketClient instance on its own, driven by any      *)
(* interleaving of connect(), disconnect(), its timers and the events of   *)
(* the sockets it created.                                                 *)
(*                                                                         *)
(* wc holds the instance's fields (ws, connectionState, reconnectAttempts, *)
(* heartbeatInterval, reconnectTimeout) and what the browser keeps for it: *)
(*   sockets[s]       readyState of each socket the instance created and   *)
(*                    the subscribe messages written to it ("NONE": the    *)
(*                    slot holds no socket, or a closed one);              *)
(*   leakedIntervals  a heartbeat interval is running whose id the         *)
(*                    instance no longer holds;                            *)
(*   leakedTimeouts   pending reconnect timeouts whose id it no longer     *)
(*                    holds;                                               *)
(*   delay            the delay of the timeout this step scheduled, 0 if   *)
(*                    it scheduled none.                                   *)
(***************************************************************************)
MaxLive == 2        \* sockets of one instance that are connecting or open at once

SocketIds == 1..MaxLive

reconnectDelay == 1000

maxReconnectDelay == 30000

Min(a, b) == IF a <= b THEN a ELSE b

NoSocket == [readyState |-> "NONE", subscribes |-> 0]

\* new WebSocketClient(onStateChange, onMessage): the field initialisers
NewWebSocketClient ==
    [ws |-> 0, connectionState |-> "offline", reconnectAttempts |-> 0,
     heartbeatInterval |-> FALSE, reconnectTimeout |-> "null",
     sockets |-> [s \in SocketIds |-> NoSocket],
     leakedIntervals |-> FALSE, leakedTimeouts |-> 0, delay |-> 0]

\* this.ws?.readyState ("NONE" when this.ws is null)
ReadyState(c) == IF c.ws = 0 THEN "NONE" ELSE c.sockets[c.ws].readyState

LiveSockets(c) == { s \in SocketIds : c.sockets[s].readyState \in {"CONNECTING", "OPEN"} }

FreeSockets(c) == { s \in SocketIds : c.sockets[s].readyState = "NONE" }

\* reconnect timeouts of the instance that have not fired and were not cleared
PendingTimeouts(c) == c.leakedTimeouts + (IF c.reconnectTimeout = "pending" THEN 1 ELSE 0)

\* cleanup(): clear the interval and the timeout the fields hold, this.ws = null
WebSocketClient_cleanup(c) ==
    [c EXCEPT !.heartbeatInterval = FALSE, !.reconnectTimeout = "null", !.ws = 0]

\* the delay of attempt n, without the ceiling
scheduleReconnect_NoCeiling(c) ==
    IF c.reconnectAttempts >= maxReconnectAttempts
    THEN [c EXCEPT !.connectionState = "offline"]
    ELSE LET n == c.reconnectAttempts + 1
         IN  [c EXCEPT !.reconnectAttempts = n,
                       !.delay = reconnectDelay * 2^(n - 1),
                       !.leakedTimeouts = IF c.reconnectTimeout = "pending" THEN @ + 1 ELSE @,
                       !.reconnectTimeout = "pending"]

\* the attempt limit tested with > instead of >=
scheduleReconnect_OneMore(c) ==
    IF c.reconnectAttempts > maxReconnectAttempts
    THEN [c EXCEPT !.connectionState = "offline"]
    ELSE LET n == c.reconnectAttempts + 1
         IN  [c EXCEPT !.reconnectAttempts = n,
                       !.delay = Min(reconnectDelay * 2^(n - 1), maxReconnectDelay),
                       !.leakedTimeouts = IF c.reconnectTimeout = "pending" THEN @ + 1 ELSE @,
                       !.reconnectTimeout = "pending"]

\* the attempt is counted but no timeout is set
scheduleReconnect_NoTimer(c) ==
    IF c.reconnectAttempts >= maxReconnectAttempts
    THEN [c EXCEPT !.connectionState = "offline"]
    ELSE [c EXCEPT !.reconnectAttempts = c.reconnectAttempts + 1]

\* scheduleReconnect(): at the limit go OFFLINE; else count the attempt and
\* set this.reconnectTimeout to a new timeout (the id held before is dropped,
\* not cleared)
WebSocketClient_scheduleReconnect(c) ==
    IF c.reconnectAttempts >= maxReconnectAttempts
    THEN [c EXCEPT !.connectionState = "offline"]
    ELSE LET n == c.reconnectAttempts + 1
         IN  [c EXCEPT !.reconnectAttempts = n,
                       !.delay = Min(reconnectDelay * 2^(n - 1), maxReconnectDelay),
                       !.leakedTimeouts = IF c.reconnectTimeout = "pending" THEN @ + 1 ELSE @,
                       !.reconnectTimeout = "pending"]

\* connect(): return if this.ws is OPEN; CONNECTING; new WebSocket(WS_URL) and
\* this.ws = it, or on a throw OFFLINE and scheduleReconnect()
connect(c, throws) ==
    IF ReadyState(c) = "OPEN"
    THEN c
    ELSE IF throws
         THEN WebSocketClient_scheduleReconnect([c EXCEPT !.connectionState = "offline"])
         ELSE LET s == CHOOSE x \in FreeSockets(c) : \A y \in FreeSockets(c) : x <= y
              IN  [c EXCEPT !.connectionState = "connecting", !.ws = s,
                            !.sockets[s] = [readyState |-> "CONNECTING", subscribes |-> 0]]

\* the model can run connect(): it returns early, the constructor throws, or a
\* socket slot is free
CanConnect(c) == ReadyState(c) = "OPEN" \/ wsThrows \/ FreeSockets(c) # {}

\* startHeartbeat(): this.heartbeatInterval = setInterval(...) (the id held
\* before is dropped, not cleared)
startHeartbeat(c) ==
    [c EXCEPT !.leakedIntervals = @ \/ c.heartbeatInterval, !.heartbeatInterval = TRUE]

\* subscribeToAllChannels(): written to this.ws if it is OPEN
subscribeToAllChannels(c) ==
    IF ReadyState(c) = "OPEN"
    THEN [c EXCEPT !.sockets[c.ws].subscribes = @ + 1]
    ELSE c

\* handleOpen(): counter to 0, CONNECTED, startHeartbeat(), subscribeToAllChannels()
WebSocketClient_handleOpen(c) ==
    subscribeToAllChannels(
        startHeartbeat([c EXCEPT !.reconnectAttempts = 0, !.connectionState = "connected"]))

\* handleClose without the cleanup() call
handleClose_NoCleanup(c, code) ==
    IF code # 1000
    THEN WebSocketClient_scheduleReconnect([c EXCEPT !.connectionState = "reconnecting"])
    ELSE [c EXCEPT !.connectionState = "offline"]

\* handleClose(event): cleanup(); code other than 1000: RECONNECTING and
\* scheduleReconnect(); code 1000: OFFLINE
WebSocketClient_handleClose(c, code) ==
    LET d == WebSocketClient_cleanup(c)
    IN  IF code # 1000
        THEN WebSocketClient_scheduleReconnect([d EXCEPT !.connectionState = "reconnecting"])
        ELSE [d EXCEPT !.connectionState = "offline"]

\* handleError(): OFFLINE
WebSocketClient_handleError(c) == [c EXCEPT !.connectionState = "offline"]

\* disconnect(): cleanup(); if (this.ws) this.ws.close(1000); OFFLINE
WebSocketClient_disconnect(c) ==
    LET d == WebSocketClient_cleanup(c)
        e == IF d.ws # 0 THEN [d EXCEPT !.sockets[d.ws].readyState = "CLOSING"] ELSE d
    IN  [e EXCEPT !.connectionState = "offline"]

\* ---- history of a run of the instance ----
\* sinceOpen: reconnects scheduled since the last successful open;
\* lastDelay / prevDelay: the delays of the last two of them (0: none);
\* disconnected: disconnect() was called and connect() was not called since;
\* exhausted: an abnormal close came after maxReconnectAttempts reconnects
\*            without an open, and neither connect() nor an open came since.
NoHistory ==
    [sinceOpen |-> 0, lastDelay |-> 0, prevDelay |-> 0,
     disconnected |-> FALSE, exhausted |-> FALSE]

Track(h, name, code, d) ==
    LET scheduled == d.delay > 0
    IN  [sinceOpen |-> IF name = "open" THEN 0
                       ELSE IF scheduled THEN h.sinceOpen + 1 ELSE h.sinceOpen,
         lastDelay |-> IF name = "open" THEN 0
                       ELSE IF scheduled THEN d.delay ELSE h.lastDelay,
         prevDelay |-> IF name = "open" THEN 0
                       ELSE IF scheduled THEN h.lastDelay ELSE h.prevDelay,
         disconnected |-> IF name = "disconnect" THEN TRUE
                          ELSE IF name = "connect" THEN FALSE ELSE h.disconnected,
         exhausted |-> IF name \in {"connect", "open"} THEN FALSE
                       ELSE IF name = "close" /\ code # 1000
                               /\ h.sinceOpen >= maxReconnectAttempts
                            THEN TRUE ELSE h.exhausted]

\* the instance as a step finds it: no timeout scheduled by this step yet
Begin == [wc EXCEPT !.delay = 0]

\* the step named `name` (on socket s, with close code `code`) leaves the instance as d
Step(name, s, code, d) ==
    /\ wc' = d
    /\ op' = [name |-> name, sock |-> s, code |-> code]
    /\ hist' = Track(hist, name, code, d)
    /\ UNCHANGED wsThrows
    /\ UNCHANGED mergeVars
    /\ UNCHANGED viewVars

InitClient ==
    /\ MergeIdle
    /\ ViewIdle
    /\ wc = NewWebSocketClient
    /\ wsThrows \in BOOLEAN
    /\ op = [name |-> "new", sock |-> 0, code |-> 0]
    /\ hist = NoHistory

\* the owner calls connect()
CallConnect ==
    /\ CanConnect(wc)
    /\ Step("connect", 0, 0, connect(Begin, wsThrows))

\* the owner calls disconnect()
CallDisconnect ==
    /\ wc # <<>>
    /\ Step("disconnect", 0, 0, WebSocketClient_disconnect(Begin))

\* ws.onopen of socket s
ClientOpen(s) ==
    /\ wc.sockets[s].readyState = "CONNECTING"
    /\ Step("open", s, 0,
            WebSocketClient_handleOpen([Begin EXCEPT !.sockets[s].readyState = "OPEN"]))

\* ws.onclose of socket s with the given code
ClientClose(s, code) ==
    /\ wc.sockets[s].readyState \in {"CONNECTING", "OPEN", "CLOSING"}
    /\ Step("close", s, code,
            WebSocketClient_handleClose([Begin EXCEPT !.sockets[s] = NoSocket], code))

\* ws.onerror of socket s
ClientError(s) ==
    /\ wc.sockets[s].readyState \in {"CONNECTING", "OPEN"}
    /\ Step("error", s, 0, WebSocketClient_handleError(Begin))

\* the timeout held in this.reconnectTimeout fires: connect()
ClientTimeout ==
    /\ wc.reconnectTimeout = "pending"
    /\ CanConnect(wc)
    /\ Step("timeout", 0, 0, connect([Begin EXCEPT !.reconnectTimeout = "fired"], wsThrows))

\* a timeout whose id was dropped fires: connect()
ClientLeakedTimeout ==
    /\ wc.leakedTimeouts > 0
    /\ CanConnect(wc)
    /\ Step("timeout", 0, 0, connect([Begin EXCEPT !.leakedTimeouts = @ - 1], wsThrows))

\* a heartbeat interval ticks: sendPing() if this.ws is OPEN
ClientHeartbeat ==
    /\ wc.heartbeatInterval \/ wc.leakedIntervals
    /\ Step("heartbeat", IF ReadyState(wc) = "OPEN" THEN wc.ws ELSE 0, 0, Begin)

NextClient ==
    \/ CallConnect
    \/ CallDisconnect
    \/ \E s \in SocketIds : ClientOpen(s)
    \/ \E s \in SocketIds : \E code \in CloseCodes : ClientClose(s, code)
    \/ \E s \in SocketIds : ClientError(s)
    \/ ClientTimeout
    \/ ClientLeakedTimeout
    \/ ClientHeartbeat

SpecClient == InitClient /\ [][NextClient]_vars

(***************************************************************************)
(* Connection lifecycle of one WebSocketClient, checked under SpecClient.  *)
(* op'.name names the operation of a step: connect, disconnect (calls of   *)
(* the owner), open, close, error (socket events), timeout, heartbeat.     *)
(***************************************************************************)

\* C11: connect() on an instance whose socket is open or still connecting is
\* a no-op: no socket is created and the connection state, the attempt
\* counter and the timers stay as they were.
C11_ConnectIdempotent ==
    [][ (op'.name = "connect" /\ ReadyState(wc) \in {"OPEN", "CONNECTING"}) =>
            /\ wc'.sockets = wc.sockets
            /\ wc'.ws = wc.ws
            /\ wc'.connectionState = wc.connectionState
            /\ wc'.reconnectAttempts = wc.reconnectAttempts
            /\ wc'.heartbeatInterval = wc.heartbeatInterval
            /\ PendingTimeouts(wc') = PendingTimeouts(wc) ]_vars

\* C12: at most one socket created by the instance is connecting or open.
C12_AtMostOneLiveSocket ==
    wc # <<>> => Cardinality(LiveSockets(wc)) <= 1

\* C13: after disconnect(), and until connect() is called again, the instance
\* stays offline and has no connection attempt under way: no reconnect
\* timeout is pending, whatever timer or socket event has occurred since.
C13_DisconnectIsFinal ==
    (wc # <<>> /\ hist.disconnected) =>
        (wc.connectionState = "offline" /\ PendingTimeouts(wc) = 0)

\* C14: right after disconnect() returns the connection state is offline, no
\* heartbeat interval of the instance is running and no reconnect timeout is
\* pending.
C14_DisconnectCancelsTimers ==
    [][ op'.name = "disconnect" =>
            /\ wc'.connectionState = "offline"
            /\ ~wc'.heartbeatInterval /\ ~wc'.leakedIntervals
            /\ PendingTimeouts(wc') = 0 ]_vars

\* C15: whenever the connection state is offline, no heartbeat interval and
\* no reconnect timeout started by the instance is active.
C15_OfflineHasNoTimers ==
    (wc # <<>> /\ wc.connectionState = "offline") =>
        /\ ~wc.heartbeatInterval /\ ~wc.leakedIntervals
        /\ PendingTimeouts(wc) = 0

\* C16: a close event with a code other than 1000, with the attempt counter
\* below the maximum, leaves the state reconnecting, the counter one higher
\* and exactly one reconnect timeout pending; a close event with code 1000
\* leaves the state offline and no reconnect timeout pending.
C16_CloseSchedulesOneReconnect ==
    [][ op'.name = "close" =>
            IF op'.code # 1000
            THEN wc.reconnectAttempts < maxReconnectAttempts =>
                    /\ wc'.connectionState = "reconnecting"
                    /\ wc'.reconnectAttempts = wc.reconnectAttempts + 1
                    /\ PendingTimeouts(wc') = 1
            ELSE /\ wc'.connectionState = "offline"
                 /\ wc'.reconnectAttempts = wc.reconnectAttempts
                 /\ PendingTimeouts(wc') = 0 ]_vars

\* C16 witness: a socket has just closed abnormally for the second time in a
\* row without an open in between, and the instance is reconnecting.
C16_Witness ==
    /\ wc # <<>>
    /\ op.name = "close" /\ op.code # 1000
    /\ hist.sinceOpen = 2 /\ wc.reconnectAttempts = 2
    /\ wc.connectionState = "reconnecting" /\ wc.reconnectTimeout = "pending"

\* C17: the delay scheduled for the k-th reconnect since the last successful
\* open is min(1000 * 2^(k-1), 30000) ms (8000 for the 4th), so the delays
\* of consecutive attempts never decrease and never exceed 30000.
C17_BackoffDelay ==
    (wc # <<>> /\ hist.sinceOpen > 0) =>
        /\ hist.lastDelay = Min(1000 * 2^(hist.sinceOpen - 1), 30000)
        /\ hist.sinceOpen = 4 => hist.lastDelay = 8000
        /\ hist.prevDelay <= hist.lastDelay
        /\ hist.lastDelay <= 30000

\* C17 witness: the 6th reconnect in a row was scheduled, the first whose
\* doubled delay (32000) is cut to the ceiling, after one delayed 16000.
C17_Witness ==
    /\ wc # <<>>
    /\ hist.sinceOpen = 6 /\ hist.prevDelay = 16000 /\ hist.lastDelay = 30000
    /\ wc.delay = 30000

\* C18: once an abnormal close has come after maxReconnectAttempts reconnects
\* with no open, the instance is offline with no reconnect timeout pending,
\* and until connect() is called or a socket opens it creates no socket.
C18_RetriesStopAtLimit ==
    [][ hist'.exhausted =>
            /\ wc'.connectionState = "offline"
            /\ PendingTimeouts(wc') = 0
            /\ hist.exhausted => LiveSockets(wc') \subseteq LiveSockets(wc) ]_vars

\* C18 witness: the socket of the 10th reconnect in a row has just closed
\* abnormally and the instance went offline.
C18_Witness ==
    /\ wc # <<>>
    /\ hist.exhausted /\ op.name = "close" /\ op.code # 1000
    /\ hist.sinceOpen = maxReconnectAttempts
    /\ wc.reconnectAttempts = maxReconnectAttempts
    /\ wc.connectionState = "offline"

\* C19: when a socket of the instance opens, the state becomes connected, the
\* attempt counter becomes 0, a heartbeat interval is started and exactly one
\* subscribe message is written, to the socket that opened.
C19_OpenSubscribesOnce ==
    [][ op'.name = "open" =>
            /\ wc'.connectionState = "connected"
            /\ wc'.reconnectAttempts = 0
            /\ wc'.heartbeatInterval
            /\ \A s \in SocketIds :
                 wc'.sockets[s].subscribes =
                     wc.sockets[s].subscribes + (IF s = op'.sock THEN 1 ELSE 0) ]_vars

\* C32: disconnect() on an instance whose socket is connecting or open closes
\* that socket (close(1000): it is closing or closed when disconnect()
\* returns), so that the socket delivers nothing more to the instance.
C32_DisconnectClosesSocket ==
    [][ (op'.name = "disconnect" /\ ReadyState(wc) \in {"CONNECTING", "OPEN"}) =>
            wc'.sockets[wc.ws].readyState \in {"CLOSING", "NONE"} ]_vars

\* C33: an open, close or error event of a socket that is not the one this.ws
\* holds leaves the connection state, this.ws, the heartbeat interval and the
\* pending reconnect timeouts as they were.
C33_StaleEventsIgnored ==
    [][ (op'.name \in {"open", "close", "error"} /\ op'.sock # wc.ws) =>
            /\ wc'.connectionState = wc.connectionState
            /\ wc'.ws = wc.ws
            /\ wc'.heartbeatInterval = wc.heartbeatInterval
            /\ PendingTimeouts(wc') = PendingTimeouts(wc) ]_vars

\* C34: the connection state is connected only if this.ws refers to an open
\* socket (the first half of the claim; entering connected from a state other
\* than connecting is its second half).
C34_ConnectedHoldsOpenSocket ==
    (wc # <<>> /\ wc.connectionState = "connected") => ReadyState(wc) = "OPEN"

(***************************************************************************)
(* SpecClientFair: SpecClient with the progress the runtime and the claims *)
(* grant: a pending timeout fires, a running heartbeat interval ticks, and *)
(* a socket that is connecting and stays so is accepted by the server.     *)
(* Closes, errors and the owner's calls are under no obligation.  The      *)
(* server sends no message in SpecClient: every run is one of a server     *)
(* that stays silent on the sockets it has accepted.                       *)
(***************************************************************************)
SpecClientFair ==
    /\ InitClient /\ [][NextClient]_vars
    /\ WF_vars(ClientTimeout)
    /\ WF_vars(ClientLeakedTimeout)
    /\ WF_vars(ClientHeartbeat)
    /\ \A s \in SocketIds : WF_vars(ClientOpen(s))

\* C28: a connected client whose heartbeat has sent a ping, and which hears
\* nothing from the server, eventually leaves the connected state (unless its
\* owner calls connect() or disconnect() first).
C28_SilenceEndsConnected ==
    (/\ wc.connectionState = "connected"
     /\ op.name = "heartbeat" /\ op.sock # 0)
        ~> \/ wc.connectionState # "connected"
           \/ op.name \in {"connect", "disconnect"}

\* an abnormal close has just put the instance on the reconnect path, and the
\* owner has not asked for the connection to end
AbnormalClose ==
    /\ op.name = "close" /\ op.code # 1000
    /\ wc.connectionState = "reconnecting"
    /\ ~hist.disconnected

\* C29: after an abnormal close that scheduled a reconnect, with timeouts
\* firing and the server accepting the sockets that stay connecting, the
\* instance eventually is connected again, unless first the owner called
\* connect() or disconnect(), the attempt limit was reached, or the server
\* ended a connection of the instance with a normal close instead.
C29_RecoversAfterAbnormalClose ==
    AbnormalClose ~>
        \/ wc.connectionState = "connected"
        \/ op.name \in {"connect", "disconnect"}
        \/ wc.reconnectAttempts >= maxReconnectAttempts
        \/ op.name = "close" /\ op.code = 1000

\* C29 witness: a socket created by a fired reconnect timeout has just opened
\* and the instance is connected on it, with no disconnect() before.
C29_Witness ==
    /\ wc # <<>> /\ ~wsThrows
    /\ op.name = "open" /\ wc.ws = op.sock
    /\ wc.connectionState = "connected"
    /\ wc.reconnectTimeout = "fired"
    /\ ~hist.disconnected

(***************************************************************************)
(* Resume requests of a collection view, checked under Spec.               *)
(***************************************************************************)

\* C20: in a reconnect cycle a view that has applied a delta sends one resume
\* request right after the transition to connected; checked here in its
\* necessary part: once a render of the view has seen the state connected
\* with lastSequence above 0 (its resume effect has run), a resume request
\* has been written to a socket.
C20_ResumeSentAfterConnected ==
    (/\ rendered # <<>>
     /\ rendered[1].connectionState = "connected"
     /\ rendered[1].lastSequence > 0) =>
        \E i \in 1..Len(sent) : sent[i].type = "resume"

\* C21: after a reconnect (a socket of the view was lost and a later one
\* opened), once a render of the view has seen the state connected with
\* lastSequence n above 0, a resume request with lastSeq = n and the channel
\* set {positions, orders, holdings, trades, pnl} has been sent; and while the
\* view has applied no delta no resume request has been sent.
C21_ResumeCarriesLastSeq ==
    /\ (/\ faults > 0
        /\ rendered # <<>>
        /\ rendered[1].connectionState = "connected"
        /\ rendered[1].lastSequence > 0) =>
           \E i \in 1..Len(sent) :
               sent[i] = [type |-> "resume", lastSeq |-> rendered[1].lastSequence,
                          channels |-> AllChannels]
    /\ lastSequence = 0 => sent = <<>>

(***************************************************************************)
(* Snapshots and the live view, checked under Spec.                        *)
(***************************************************************************)

\* the commit that renders a snapshot the view has not rendered before
CommitsSnapshot ==
    /\ rendered # <<>> /\ rendered[1].data # data
    /\ rendered' = <<RenderValues>>

\* what the view shows after the step
Shown == displayData(view, [RenderValues EXCEPT !.live = live'])[1]

\* C23: when the view commits a fresh snapshot (the first one or a later
\* poll), what it shows is that snapshot, and lastSequence is reset to 0 (the
\* snapshot response carries no baseline sequence).
C23_SnapshotReplacesView ==
    [][ CommitsSnapshot => (Shown = data[1] /\ lastSequence' = 0) ]_vars

\* C24: the live view is populated from the snapshot once and afterwards only
\* deltas change it; checked here in its last part: once the view has
\* rendered a populated live value, a step that is no delta delivery never
\* changes a live value that a delta handler has stored (dirty: a handler has
\* called setLive since the last render).
C24_SnapshotNeverOverwritesDeltas ==
    [][ (/\ ev'.type = "step" /\ live' # live
         /\ rendered # <<>> /\ rendered[1].live # <<>>) => ~dirty ]_vars

\* a socket event of one of the view's clients (open, close, error, reconnect
\* timer): a step that is no render and changes a client or the hook's
\* connection state
LifecycleEvent ==
    /\ ev'.type = "step" /\ rendered' = rendered
    /\ (wsRef' # wsRef \/ stale' # stale \/ connectionState' # connectionState)

\* a commit caused by nothing but the connection state (or the mount): its
\* effect disconnects the old client and connects a new one
LifecycleRender ==
    /\ ev'.type = "step" /\ rendered' # rendered
    /\ ~dirty
    /\ rendered # <<>> => Closure(rendered[1]) = Closure(RenderValues)

\* C26: a connection lifecycle step (socket open, close, error, reconnect
\* timer, and the connect/disconnect of a commit caused by the connection
\* state alone) leaves the snapshot, the live value, lastSequence and what the
\* view shows unchanged.
C26_LifecycleKeepsViewState ==
    [][ (LifecycleEvent \/ LifecycleRender) =>
            /\ live' = live /\ lastSequence' = lastSequence /\ data' = data
            /\ displayData(view, [RenderValues EXCEPT !.live = live',
                                                      !.data = data',
                                                      !.connectionState = connectionState'])
                 = displayData(view, RenderValues) ]_vars

\* C26 witness: a socket of a view that shows live data with an applied delta
\* has just closed abnormally (the hook's state is reconnecting, not yet
\* rendered).
C26_Witness ==
    /\ faults > 0 /\ live # <<>> /\ lastSequence > 0
    /\ connectionState = "reconnecting"
    /\ rendered # <<>> /\ rendered[1].connectionState = "connecting"
    /\ displayData(view, RenderValues) # <<>>

\* C35: when the delta n+2 of the positions view is handled right after the
\* delta n+1 was applied, with no render between the two, the view becomes the
\* merge of n+2 into the view that holds n+1, and lastSequence becomes n+2.
C35_NoLostUpdateBetweenRenders ==
    [][ (/\ view = "positions"
         /\ ev.type = "delta" /\ ev.applied /\ ev.merged /\ lastSequence = ev.seq
         /\ live # <<>>
         /\ ev'.type = "delta" /\ ev'.seq = ev.seq + 1) =>
            /\ live' = mergePositions(live, log[ev'.seq])
            /\ lastSequence' = ev'.seq ]_vars

\* C36: a re-render of the host component keeps the hook's client: the commit
\* that follows the opening of the client's socket neither replaces the
\* client in wsRef nor takes the connection state away from connected.
C36_RenderKeepsClient ==
    [][ (/\ rendered # <<>> /\ rendered' # rendered
         /\ wsRef # <<>> /\ wsRef[1].sock = "OPEN" /\ connectionState = "connected") =>
            (wsRef' = wsRef /\ connectionState' = "connected") ]_vars

\* C37: after a delta handler has stored an empty collection in the positions
\* view (the delta removed every entity), the next commit shows an empty
\* collection, not the entities of the snapshot.
C37_EmptiedViewShowsEmpty ==
    [][ (/\ view = "positions" /\ data # <<>>
         /\ dirty /\ live = <<>> /\ lastSequence > 0
         /\ ev'.type = "step" /\ ~dirty') => Shown = <<>> ]_vars

(***************************************************************************)
(* SpecInbound: what a view's WebSocketClient does with the frames that    *)
(* arrive on its open socket, whatever they hold.                          *)
(*                                                                         *)
(* The run starts when the socket of the view's client has just opened:    *)
(* the view holds some snapshot (or none yet), a live value and a          *)
(* lastSequence; the client's handler is the closure of the render that    *)
(* built it.  Frames are handled one at a time by WebSocketClient's        *)
(* handleMessage; the component re-renders (Render) when its state has     *)
(* changed, which replaces the client while the replaced socket stays open *)
(* and keeps handing frames to the old closure.  handled counts the frames *)
(* handled so far; ev describes the handling of the last one: the frame,   *)
(* lastSequence as the handler saw it, what the handler did, and whether   *)
(* the frame handled just before was one the client cannot use.            *)
(***************************************************************************)
MaxFrames == 2      \* frames handled in one run

\* MessageType: the values the client knows
MessageTypes ==
    {"hello", "ping", "pong", "subscribe", "unsubscribe", "resume", "resume.ack",
     "resume.nack", "positions.delta", "orders.delta", "holdings.delta", "trades.delta",
     "pnl.update", "positions.summary", "orders.summary", "holdings.summary",
     "trades.summary", "pnl.summary", "error"}

DeltaTypes ==
    {"positions.delta", "orders.delta", "holdings.delta", "trades.delta", "pnl.update"}

\* the message type a view applies
OwnType(kind) == IF kind = "pnl" THEN "pnl.update" ELSE "positions.delta"

\* event.data of a frame: text JSON.parse rejects, or text that parses to null,
\* to a number, or to an object (with or without a type property)
Unparseable == [parses |-> FALSE]

JsonNull == [parses |-> TRUE, value |-> [is |-> "null"]]

JsonNumber == [parses |-> TRUE, value |-> [is |-> "number"]]

JsonObject(o) == [parses |-> TRUE, value |-> [is |-> "object", obj |-> o]]

Frames ==
    {Unparseable, JsonNull, JsonNumber, JsonObject([note |-> "x"])}
    \cup { JsonObject([type |-> t]) : t \in {"hello", "pong", "resume.nack", "error", "bogus"} }
    \cup { JsonObject([type |-> "resume.ack", missedEvents |-> n]) : n \in {0, 1} }
    \cup { JsonObject(DeltaMessage("positions", n, ch)) : n \in 1..MaxSeq, ch \in PositionChanges }
    \cup { JsonObject(DeltaMessage("pnl", n, ch)) : n \in 1..MaxSeq, ch \in PnLChanges }
    \cup { JsonObject([type |-> "orders.delta", seq |-> n,
                       changes |-> [upsert |-> <<>>, remove |-> <<"K1">>]]) : n \in 1..MaxSeq }

\* message.type as the code reads it ("undefined": the value has no such property)
FrameType(f) ==
    IF ~f.parses THEN "unparseable"
    ELSE IF f.value.is # "object" THEN f.value.is
    ELSE IF "type" \in DOMAIN f.value.obj THEN f.value.obj.type
    ELSE "undefined"

\* the parsed value as the handlers read it
MessageOf(f) ==
    IF f.value.is = "object" /\ "type" \in DOMAIN f.value.obj
    THEN f.value.obj
    ELSE [type |-> "undefined"]

\* what one run of handleMessage did: the client afterwards, whether the catch
\* block ran, the component's setState calls, whether calculateRTT() ran,
\* whether a console.log branch ran
Handling(c, caught, calls, rtt, logged) ==
    [client |-> c, caught |-> caught, calls |-> calls, calculateRTT |-> rtt, logged |-> logged]

\* a client that treats a frame it cannot use as a connection error
handleMessage_ErrorOnBadFrame(kind, c, f, now) ==
    IF FrameType(f) \notin MessageTypes
    THEN Handling(handleError(c), TRUE, NoCalls, FALSE, FALSE)
    ELSE Handling(c, FALSE, OnMessage(kind, c.closure, MessageOf(f), now),
                  FrameType(f) = "pong", FrameType(f) = "hello")

\* handleMessage(event):
\*   try { message = JSON.parse(event.data); this.onMessage(message);
\*         hello -> console.log; pong -> calculateRTT();
\*         resume.ack -> handleResumeAck(message) (a console.log if missedEvents > 0) }
\*   catch { console.error }
\* JSON.parse throws on text that is no JSON; onMessage, the view's handler,
\* throws a TypeError reading message.type of null.
WebSocketClient_handleMessage(kind, c, f, now) ==
    IF ~f.parses
    THEN Handling(c, TRUE, NoCalls, FALSE, FALSE)
    ELSE IF f.value.is = "null"
    THEN Handling(c, TRUE, NoCalls, FALSE, FALSE)
    ELSE LET message == MessageOf(f)
         IN  Handling(c, FALSE, OnMessage(kind, c.closure, message, now),
                      message.type = "pong",
                      \/ message.type = "hello"
                      \/ message.type = "resume.ack" /\ message.missedEvents > 0)

\* a frame the client cannot use: no JSON, or a value whose type is none of
\* MessageType's
Unusable(f) == FrameType(f) \notin MessageTypes

SnapshotsOf(kind) == IF kind = "pnl" THEN ServerPnLs ELSE ServerCollections

\* the live values a view can hold over snapshot s after applying deltas up to n
LiveOver(kind, s, n) ==
    IF kind = "pnl"
    THEN {<<s>>} \cup (IF n = 0 THEN {}
                       ELSE { <<updatePnL(s, DeltaMessage("pnl", n, ch), now)>> :
                                ch \in PnLChanges, now \in Clock })
    ELSE {s} \cup (IF n = 0 THEN {}
                   ELSE { mergePositions(s, DeltaMessage("positions", n, ch)) :
                            ch \in PositionChanges })

InitInbound ==
    /\ MergeIdle
    /\ ClientIdle
    /\ view \in {"positions", "pnl"}
    /\ lastSequence \in 0..MaxSeq
    /\ \/ data = <<>> /\ live = <<>>
       \/ \E s \in SnapshotsOf(view) :
            data = <<s>> /\ live \in LiveOver(view, s, lastSequence)
    /\ rendered = <<[data |-> data, live |-> live, lastSequence |-> lastSequence,
                     connectionState |-> "connecting"]>>
    /\ wsRef = <<handleOpen(NewClient(Closure(rendered[1])), 0)>>
    /\ connectionState = "connected" /\ dirty = FALSE
    /\ stale = {} /\ log = <<>> /\ server = <<>> /\ sent = <<>>
    /\ faults = 0 /\ ev = [type |-> "init"] /\ handled = 0 /\ gap = <<>>

\* ws.onmessage of an open socket with frame f
ReceiveFrame(who, f) ==
    LET c == who[2]
    IN  /\ c.sock = "OPEN"
        /\ handled < MaxFrames
        /\ \E now \in Clock :
             LET h == WebSocketClient_handleMessage(view, c, f, now)
                 calls == h.calls
             IN  /\ Replace(who, h.client)
                 /\ connectionState' = IF h.client.connectionState # c.connectionState
                                          /\ who[1] = "current"
                                       THEN h.client.connectionState ELSE connectionState
                 /\ live' = IF calls.setLive # <<>> THEN calls.setLive[1] ELSE live
                 /\ lastSequence' = IF calls.setLastSequence # <<>>
                                    THEN calls.setLastSequence[1] ELSE lastSequence
                 /\ dirty' = (dirty \/ calls.setLive # <<>>)
                 /\ ev' = [type |-> "frame", frame |-> f,
                           afterUnusable |-> ev.type = "frame" /\ Unusable(ev.frame),
                           seen |-> c.closure.lastSequence,
                           caught |-> h.caught,
                           applied |-> calls.setLastSequence # <<>>,
                           merged |-> calls.setLive # <<>>,
                           refetch |-> calls.refetch,
                           calculateRTT |-> h.calculateRTT]
        /\ handled' = handled + 1
        /\ UNCHANGED <<view, data, rendered, log, server, sent, faults, gap>>
        /\ UNCHANGED mergeVars
        /\ UNCHANGED clientVars

NextInbound ==
    \/ \E who \in Clients : \E f \in Frames : ReceiveFrame(who, f)
    \/ Render

SpecInbound == InitInbound /\ [][NextInbound]_vars

\* C22: whenever a resume.nack message is handled, refetch() of the view's
\* snapshot query is called.
C22_NackTriggersRefetch ==
    [][ (ev'.type = "frame" /\ FrameType(ev'.frame) = "resume.nack") =>
            ev'.refetch ]_vars

C30_OtherKindsLeaveViewUnchanged ==
    [][ (/\ ev'.type = "frame"
         /\ FrameType(ev'.frame) \in DeltaTypes \ {OwnType(view)}) =>
            /\ data' = data /\ live' = live /\ lastSequence' = lastSequence
            /\ ~ev'.applied /\ ~ev'.merged ]_vars

\* C30 witness: the Positions view, holding live data, has handled a
\* pnl.update whose seq is above its lastSequence.
C30_Witness ==
    /\ view = "positions" /\ live # <<>>
    /\ ev.type = "frame" /\ FrameType(ev.frame) = "pnl.update"
    /\ ev.frame.value.obj.seq > lastSequence
    /\ ev.seen = lastSequence

(***************************************************************************)
(* SpecFetch: api.fetch applied to every response the snapshot endpoint    *)
(* can give.  server holds the HTTP response (or the transport failure),   *)
(* ev the outcome of the call.                                             *)
(***************************************************************************)
HttpStatuses == {200, 201, 304, 400, 404, 500}

\* an optional property: <<>> when absent, <<v>> when present with value v
Optional(S) == {<<>>} \cup { <<v>> : v \in S }

\* response bodies: text that is no JSON, JSON null, or an object with any of
\* ok (true, false, or the string "false"), data and error ({code, message}
\* or {code} alone)
Bodies ==
    { [is |-> "text"], [is |-> "null"] } \cup
    [is : {"object"},
     ok : Optional({[bool |-> TRUE], [bool |-> FALSE], [string |-> "false"]}),
     data : Optional({<<>>, <<FullEntity("K1")>>}),
     error : Optional({[code |-> "E1"], [code |-> "E1", message |-> "denied"]})]

Responses ==
    { [transport |-> "failed"] } \cup
    [transport : {"ok"}, status : HttpStatuses, body : Bodies]

\* Response.ok: the status is in the range 200-299
ResponseOk(status) == status >= 200 /\ status <= 299

\* !v for the values an ok property can hold
Falsy(opt) == opt = <<>> \/ opt[1] = [bool |-> FALSE]

Throw(msg) == [threw |-> TRUE, message |-> msg]

Return(opt) == [threw |-> FALSE, value |-> opt]

\* data.error?.message || 'API request failed'
ErrorMessage(body) ==
    IF body.error # <<>> /\ "message" \in DOMAIN body.error[1]
    THEN body.error[1].message
    ELSE "API request failed"

\* api.fetch returning data.data whatever the envelope's ok says
fetch_NoEnvelopeCheck(response) ==
    IF response.transport = "failed" THEN Throw("TypeError")
    ELSE IF ~ResponseOk(response.status) THEN Throw("HTTP")
    ELSE IF response.body.is = "text" THEN Throw("SyntaxError")
    ELSE IF response.body.is = "null" THEN Throw("TypeError")
    ELSE Return(response.body.data)

\* api.fetch(endpoint):
\*   response = await fetch(url)             rejects on a transport failure
\*   if (!response.ok) throw Error(`HTTP ...`)
\*   data = await response.json()            rejects on text that is no JSON
\*   if (!data.ok) throw Error(data.error?.message || 'API request failed')
\*                                           (a TypeError when data is null)
\*   return data.data
fetch(response) ==
    IF response.transport = "failed" THEN Throw("TypeError")
    ELSE IF ~ResponseOk(response.status) THEN Throw("HTTP")
    ELSE IF response.body.is = "text" THEN Throw("SyntaxError")
    ELSE IF response.body.is = "null" THEN Throw("TypeError")
    ELSE IF Falsy(response.body.ok) THEN Throw(ErrorMessage(response.body))
    ELSE Return(response.body.data)

InitFetch ==
    /\ MergeIdle
    /\ ClientIdle
    /\ view = "none" /\ data = <<>> /\ live = <<>> /\ lastSequence = 0
    /\ connectionState = "offline" /\ dirty = FALSE /\ rendered = <<>>
    /\ wsRef = <<>> /\ stale = {} /\ log = <<>> /\ sent = <<>>
    /\ faults = 0 /\ ev = [type |-> "init"] /\ handled = 0 /\ gap = <<>>
    /\ server \in Responses

\* the snapshot query runs its queryFn once
CallFetch ==
    /\ ev.type = "init"
    /\ ev' = [type |-> "fetch", outcome |-> fetch(server)]
    /\ UNCHANGED <<view, data, live, lastSequence, connectionState, dirty, rendered, wsRef,
                   stale, log, server, sent, faults, handled, gap>>
    /\ UNCHANGED mergeVars
    /\ UNCHANGED clientVars

NextFetch == CallFetch

SpecFetch == InitFetch /\ [][NextFetch]_vars

\* the response is a failure in the sense of the claim: the HTTP status is not
\* a success, or the body is an envelope whose ok is false
FailureResponse(r) ==
    /\ r.transport = "ok"
    /\ \/ ~ResponseOk(r.status)
       \/ r.body.is = "object" /\ r.body.ok = <<[bool |-> FALSE]>>

\* C25: api.fetch on a response whose status is not a success, or whose
\* envelope has ok = false, throws and returns no value.
C25_FailedFetchThrows ==
    (ev.type = "fetch" /\ FailureResponse(server)) => ev.outcome.threw

\* C25 witness: a call has thrown, with the envelope's error message, on a
\* 200 response whose envelope has ok = false and carries a data collection.
C25_Witness ==
    /\ ev.type = "fetch" /\ server.transport = "ok" /\ server.status = 200
    /\ server.body.is = "object" /\ server.body.ok = <<[bool |-> FALSE]>>
    /\ server.body.data = << <<FullEntity("K1")>> >>
    /\ ev.outcome = Throw("denied")

(***************************************************************************)
(* SpecImpl: the singleton WebSocketClientImpl service on its own, driven  *)
(* by any interleaving of connect(), disconnect(), its reconnect timeouts  *)
(* and the events of the sockets it created.                               *)
(*                                                                         *)
(* wc holds the instance's fields ws and reconnectAttempts and what the    *)
(* browser keeps for it: the readyState of each socket it created ("NONE": *)
(* no socket in the slot, or a closed one; ws may still refer to a closed  *)
(* socket) and the number of pending timeouts (the service keeps no timer  *)
(* id).  The registered callbacks run outside the instance and are left    *)
(* out.  hist.disconnected: disconnect() was called and connect() was not  *)
(* called since; hist.scheduledSince: a timeout was set since then.         *)
(***************************************************************************)
MaxPending == 2     \* reconnect timeouts of the service pending at once

Impl_maxReconnectAttempts == 5

NewWebSocketClientImpl ==
    [ws |-> 0, reconnectAttempts |-> 0,
     sockets |-> [s \in SocketIds |-> "NONE"], timeouts |-> 0]

ImplFreeSockets(c) == { s \in SocketIds : c.sockets[s] = "NONE" }

\* connect(): this.ws = new WebSocket(wsUrl) and the four handlers are set;
\* a throw of the constructor is caught and rejects the promise
Impl_connect(c, throws) ==
    IF throws THEN c
    ELSE LET s == CHOOSE x \in ImplFreeSockets(c) : \A y \in ImplFreeSockets(c) : x <= y
         IN  [c EXCEPT !.ws = s, !.sockets[s] = "CONNECTING"]

\* ws.onopen: reconnectAttempts = 0, the connect callbacks, resolve()
Impl_onopen(c) == [c EXCEPT !.reconnectAttempts = 0]

\* ws.onclose: the disconnect callbacks; if the code is not 1000 and attempts
\* remain, count one and setTimeout(() => this.connect(), delay * attempts)
Impl_onclose(c, code) ==
    IF code # 1000 /\ c.reconnectAttempts < Impl_maxReconnectAttempts
    THEN [c EXCEPT !.reconnectAttempts = @ + 1, !.timeouts = @ + 1]
    ELSE c

\* disconnect(): if (this.ws) { this.ws.close(1000, ...); this.ws = null }
\* close() acts on a socket that is connecting or open
Impl_disconnect(c) ==
    IF c.ws # 0
    THEN [c EXCEPT !.ws = 0,
                   !.sockets[c.ws] = IF @ \in {"CONNECTING", "OPEN"} THEN "CLOSING" ELSE @]
    ELSE c

NoImplHistory == [disconnected |-> FALSE, scheduledSince |-> FALSE]

ImplTrack(h, name, c, d) ==
    [disconnected |-> IF name = "disconnect" THEN TRUE
                      ELSE IF name = "connect" THEN FALSE ELSE h.disconnected,
     scheduledSince |-> IF name \in {"disconnect", "connect"} THEN FALSE
                        ELSE h.scheduledSince \/ (h.disconnected /\ d.timeouts > c.timeouts)]

InitImpl ==
    /\ MergeIdle
    /\ ViewIdle
    /\ wc = NewWebSocketClientImpl
    /\ wsThrows \in BOOLEAN
    /\ op = [name |-> "new", sock |-> 0, code |-> 0]
    /\ hist = NoImplHistory

\* the step named `name` (on socket s, with close code `code`) turns the service c into d
ImplStep(name, s, code, c, d) ==
    /\ wc' = d
    /\ op' = [name |-> name, sock |-> s, code |-> code]
    /\ hist' = ImplTrack(hist, name, c, d)
    /\ UNCHANGED wsThrows
    /\ UNCHANGED mergeVars
    /\ UNCHANGED viewVars

\* the application calls websocketClient.connect()
ImplCallConnect ==
    /\ wsThrows \/ ImplFreeSockets(wc) # {}
    /\ ImplStep("connect", 0, 0, wc, Impl_connect(wc, wsThrows))

\* the application calls websocketClient.disconnect()
ImplCallDisconnect ==
    /\ wc.ws \in 0..MaxLive
    /\ ImplStep("disconnect", 0, 0, wc, Impl_disconnect(wc))

\* onopen of socket s
ImplOpen(s) ==
    /\ wc.sockets[s] = "CONNECTING"
    /\ ImplStep("open", s, 0, wc, Impl_onopen([wc EXCEPT !.sockets[s] = "OPEN"]))

\* onclose of socket s with the given code
ImplClose(s, code) ==
    /\ wc.sockets[s] \in {"CONNECTING", "OPEN", "CLOSING"}
    /\ wc.timeouts < MaxPending
    /\ ImplStep("close", s, code, wc, Impl_onclose([wc EXCEPT !.sockets[s] = "NONE"], code))

\* onerror of socket s: the error callbacks, reject()
ImplError(s) ==
    /\ wc.sockets[s] \in {"CONNECTING", "OPEN"}
    /\ ImplStep("error", s, 0, wc, wc)

\* a pending timeout fires: this.connect()
ImplTimeout ==
    /\ wc.timeouts > 0
    /\ wsThrows \/ ImplFreeSockets(wc) # {}
    /\ ImplStep("timeout", 0, 0, wc, Impl_connect([wc EXCEPT !.timeouts = @ - 1], wsThrows))

NextImpl ==
    \/ ImplCallConnect
    \/ ImplCallDisconnect
    \/ \E s \in SocketIds : ImplOpen(s)
    \/ \E s \in SocketIds : \E code \in CloseCodes : ImplClose(s, code)
    \/ \E s \in SocketIds : ImplError(s)
    \/ ImplTimeout

SpecImpl == InitImpl /\ [][NextImpl]_vars

\* C31: once disconnect() was called, with no connect() call and no timeout
\* set since, no reconnect timeout fires and connects: a timeout that was
\* pending at disconnect() is cancelled.
C31_DisconnectCancelsReconnect ==
    [][ (hist.disconnected /\ ~hist.scheduledSince) => op'.name # "timeout" ]_vars

====
